---- MODULE Spec2Model ----
(***************************************************************************)
(* Model of reduce.cpp: the sum of a rows x cols matrix computed by        *)
(* limiter worker threads, with static (strided) or dynamic (shared        *)
(* counter under counter_lock) row assignment, and the join/accumulate     *)
(* loop of main().  The matrix dimensions are scaled down; every thread    *)
(* step that touches shared state is a separate action.                    *)
(*                                                                         *)
(* The program never branches on a matrix value, it only adds them.  The   *)
(* value rand() stores in cell (i, j) is therefore kept as an unknown      *)
(* v_ij, and every number built from cells (work[i][j], sum[tid],          *)
(* gross_sum) is the linear form that says how many times each v_ij has    *)
(* been added.  Two such numbers are equal for every matrix content        *)
(* exactly when their linear forms are equal.  The 64-bit accumulators do  *)
(* not wrap: 1000 * 100 values below 2^31 stay below 2^48.                 *)
(***************************************************************************)
EXTENDS Integers, Sequences, FiniteSets

(* ---- bounds ---- *)
rows == 2        \* reduce.cpp:8 declares 1000; scaled down
cols == 2        \* reduce.cpp:9 declares 100; scaled down
MaxHW == 2       \* largest value of std::thread::hardware_concurrency()
MaxT == 3        \* largest value given to -t
MaxArgs == 2     \* number of command line options
UintWidth == 16  \* width of uint32_t, scaled down (TLC integers are 32 bit)

MaxN == IF MaxHW > 2 THEN MaxHW ELSE 2
Threads == 0 .. (MaxN - 1)
Free == -1       \* a mutex nobody holds
NoRow == -1      \* count_copy / row outside its scope

Options == {[opt |-> "d", arg |-> 0], [opt |-> "x", arg |-> 0]}
             \cup {[opt |-> "t", arg |-> n] : n \in (-1) .. MaxT}
ArgVectors == UNION {[1 .. n -> Options] : n \in 0 .. MaxArgs}

\* the unknowns: one per matrix cell, and one for whatever a read outside
\* the matrix returns
Garbage == <<NoRow, NoRow>>
Terms == ((0 .. (rows - 1)) \X (0 .. (cols - 1))) \cup {Garbage}
Zero == [c \in Terms |-> 0]
Unit(x) == [c \in Terms |-> IF c = x THEN 1 ELSE 0]
\* a + b on linear forms
Add(a, b) == [c \in Terms |-> a[c] + b[c]]

VARIABLES argv, maxThreads, dFlag, limiter, mpc, mi,
          work, counter, counter_lock, stdout_lock,
          tcount, sum, total_work, gross_sum,
          wpc, done, row, count_copy, rowlog, acquired

vars == <<argv, maxThreads, dFlag, limiter, mpc, mi,
          work, counter, counter_lock, stdout_lock,
          tcount, sum, total_work, gross_sum,
          wpc, done, row, count_copy, rowlog, acquired>>

mainVars == <<argv, maxThreads, dFlag, limiter, mpc, mi, total_work, gross_sum>>
optVars == <<argv, maxThreads, dFlag, limiter>>
localVars == <<done, row, count_copy>>
resultVars == <<tcount, sum, rowlog>>

(* ---- pure helpers ---- *)

\* conversion int -> uint32_t of "limiter = atoi(optarg)"
ToUint32(n) == n % (2 ^ UintWidth)

\* the clamp applied to the -t argument
ClampThreads(a, maxT) ==
  LET l == ToUint32(a)
  IN  IF l < 2 THEN 2 ELSE IF l > maxT THEN maxT ELSE l

RECURSIVE ColSum(_, _)
\* for (i = 0; i < cols; i++) acc += r[i], from column i on
ColSum(r, i) == IF i >= cols THEN Zero ELSE Add(r[i], ColSum(r, i + 1))

\* what "sum[tid] += work[r][0..cols-1]" adds; a row index outside the
\* matrix is an out-of-bounds read, which may yield anything
RowSum(r) ==
  IF r \in 0 .. (rows - 1) THEN ColSum(work[r], 0) ELSE Unit(Garbage)

Init ==
  /\ argv \in ArgVectors
  /\ maxThreads \in 0 .. MaxHW
  /\ dFlag = FALSE
  /\ limiter = 2
  /\ mpc = "getopt"
  /\ mi = 0
  /\ work = [i \in 0 .. (rows - 1) |-> [j \in 0 .. (cols - 1) |-> Zero]]
  /\ counter = rows
  /\ counter_lock = Free
  /\ stdout_lock = Free
  /\ tcount = <<>>
  /\ sum = <<>>
  /\ total_work = 0
  /\ gross_sum = Zero
  /\ wpc = [t \in Threads |-> "unborn"]
  /\ done = [t \in Threads |-> FALSE]
  /\ row = [t \in Threads |-> NoRow]
  /\ count_copy = [t \in Threads |-> NoRow]
  /\ rowlog = [t \in Threads |-> <<>>]
  /\ acquired = [t \in Threads |-> 0]

(* ---- main(): option parsing ---- *)

main_opt_d ==
  /\ mpc = "getopt" /\ argv # <<>> /\ Head(argv).opt = "d"
  /\ dFlag' = TRUE
  /\ argv' = Tail(argv)
  /\ UNCHANGED <<maxThreads, limiter, mpc, mi, total_work, gross_sum>>
  /\ UNCHANGED <<work, counter, counter_lock, stdout_lock, wpc>>
  /\ UNCHANGED <<localVars, resultVars>>
  /\ UNCHANGED acquired

main_opt_t ==
  /\ mpc = "getopt" /\ argv # <<>> /\ Head(argv).opt = "t"
  /\ limiter' = ClampThreads(Head(argv).arg, maxThreads)
  /\ argv' = Tail(argv)
  /\ UNCHANGED <<maxThreads, dFlag, mpc, mi, total_work, gross_sum>>
  /\ UNCHANGED <<work, counter, counter_lock, stdout_lock, wpc>>
  /\ UNCHANGED <<localVars, resultVars>>
  /\ UNCHANGED acquired

\* a usage() that prints and returns: parsing goes on
main_usage_continue ==
  /\ mpc = "getopt" /\ argv # <<>> /\ Head(argv).opt \notin {"d", "t"}
  /\ argv' = Tail(argv)
  /\ UNCHANGED <<maxThreads, dFlag, limiter, mpc, mi, total_work, gross_sum>>
  /\ UNCHANGED <<work, counter, counter_lock, stdout_lock, wpc>>
  /\ UNCHANGED <<localVars, resultVars>>
  /\ UNCHANGED acquired

\* default: usage(), which ends the process with exit(1)
main_usage ==
  /\ mpc = "getopt" /\ argv # <<>> /\ Head(argv).opt \notin {"d", "t"}
  /\ mpc' = "exit1"
  /\ argv' = Tail(argv)
  /\ UNCHANGED <<maxThreads, dFlag, limiter, mi, total_work, gross_sum>>
  /\ UNCHANGED <<work, counter, counter_lock, stdout_lock, wpc>>
  /\ UNCHANGED <<localVars, resultVars>>
  /\ UNCHANGED acquired

\* getopt returns -1, then tcount.resize(limiter, 0); sum.resize(limiter, 0)
main_resize ==
  /\ mpc = "getopt" /\ argv = <<>>
  /\ tcount' = [t \in 0 .. (limiter - 1) |-> 0]
  /\ sum' = [t \in 0 .. (limiter - 1) |-> Zero]
  /\ mpc' = "populate"
  /\ UNCHANGED <<optVars, mi, total_work, gross_sum, rowlog>>
  /\ UNCHANGED <<work, counter, counter_lock, stdout_lock, wpc, localVars>>
  /\ UNCHANGED acquired

\* work[i][j] = rand() for every cell: cell (i, j) now holds v_ij
main_populate ==
  /\ mpc = "populate"
  /\ work' = [i \in 0 .. (rows - 1) |-> [j \in 0 .. (cols - 1) |-> Unit(<<i, j>>)]]
  /\ mpc' = "spawn"
  /\ mi' = 0
  /\ UNCHANGED <<optVars, total_work, gross_sum>>
  /\ UNCHANGED <<counter, counter_lock, stdout_lock, wpc, localVars, resultVars>>
  /\ UNCHANGED acquired

(* ---- main(): thread creation ---- *)

main_spawn_dynamic ==
  /\ mpc = "spawn" /\ dFlag /\ mi < limiter
  /\ wpc' = [wpc EXCEPT ![mi] = "dy_start"]
  /\ mi' = mi + 1
  /\ UNCHANGED <<optVars, mpc, total_work, gross_sum>>
  /\ UNCHANGED <<work, counter, counter_lock, stdout_lock, localVars, resultVars>>
  /\ UNCHANGED acquired

main_spawn_static ==
  /\ mpc = "spawn" /\ ~dFlag /\ mi < limiter
  /\ wpc' = [wpc EXCEPT ![mi] = "st_start"]
  /\ mi' = mi + 1
  /\ UNCHANGED <<optVars, mpc, total_work, gross_sum>>
  /\ UNCHANGED <<work, counter, counter_lock, stdout_lock, localVars, resultVars>>
  /\ UNCHANGED acquired

\* the creation loop ends, the join loop starts with i = 0
main_spawn_end ==
  /\ mpc = "spawn" /\ mi >= limiter
  /\ mpc' = "join"
  /\ mi' = 0
  /\ UNCHANGED <<optVars, total_work, gross_sum>>
  /\ UNCHANGED <<work, counter, counter_lock, stdout_lock, wpc, localVars, resultVars>>
  /\ UNCHANGED acquired

(* ---- sum_static(tid, num_threads); num_threads is limiter ---- *)

st_start_lock(t) ==
  /\ wpc[t] = "st_start" /\ stdout_lock = Free
  /\ stdout_lock' = t
  /\ wpc' = [wpc EXCEPT ![t] = "st_started"]
  /\ UNCHANGED <<mainVars, work, counter, counter_lock, localVars, resultVars>>
  /\ UNCHANGED acquired

\* stdout_lock.unlock(); bool done = false; int row = tid
st_start_unlock(t) ==
  /\ wpc[t] = "st_started"
  /\ stdout_lock' = Free
  /\ done' = [done EXCEPT ![t] = FALSE]
  /\ row' = [row EXCEPT ![t] = t]
  /\ wpc' = [wpc EXCEPT ![t] = "st_while"]
  /\ UNCHANGED <<mainVars, work, counter, counter_lock, count_copy, resultVars>>
  /\ UNCHANGED acquired

\* "row > rows": one row too many
StaticPastEndOff(r) == r > rows

\* the literal 1000 of the test is the value of rows
StaticPastEnd(r) == r >= rows

\* while (!done) { if (row >= rows) done = true; if (!done) ...
st_while(t) ==
  /\ wpc[t] = "st_while"
  /\ IF StaticPastEnd(row[t])
       THEN /\ done' = [done EXCEPT ![t] = TRUE]
            /\ wpc' = [wpc EXCEPT ![t] = "st_end"]
       ELSE /\ done' = done
            /\ wpc' = [wpc EXCEPT ![t] = "st_sum"]
  /\ UNCHANGED <<mainVars, work, counter, counter_lock, stdout_lock>>
  /\ UNCHANGED <<row, count_copy, resultVars>>
  /\ UNCHANGED acquired

\* for (i ...) sum[tid] += work[row][i]
st_sum(t) ==
  /\ wpc[t] = "st_sum"
  /\ sum' = [sum EXCEPT ![t] = Add(sum[t], RowSum(row[t]))]
  /\ rowlog' = [rowlog EXCEPT ![t] = Append(rowlog[t], row[t])]
  /\ wpc' = [wpc EXCEPT ![t] = "st_next"]
  /\ UNCHANGED <<mainVars, work, counter, counter_lock, stdout_lock>>
  /\ UNCHANGED <<localVars, tcount>>
  /\ UNCHANGED acquired

\* a stride of one row whatever the thread count
StaticStrideOne(r, n) == r + 1

\* row += num_threads
StaticStride(r, n) == r + n

\* ++tcount[(tid + 1) % N]: the neighbour's entry
st_next_neighbour(t) ==
  /\ wpc[t] = "st_next"
  /\ row' = [row EXCEPT ![t] = StaticStride(row[t], limiter)]
  /\ tcount' = [tcount EXCEPT ![(t + 1) % limiter] = tcount[(t + 1) % limiter] + 1]
  /\ wpc' = [wpc EXCEPT ![t] = "st_while"]
  /\ UNCHANGED <<mainVars, work, counter, counter_lock, stdout_lock>>
  /\ UNCHANGED <<done, count_copy, sum, rowlog>>
  /\ UNCHANGED acquired

\* row += num_threads; ++tcount[tid]
st_next(t) ==
  /\ wpc[t] = "st_next"
  /\ row' = [row EXCEPT ![t] = StaticStride(row[t], limiter)]
  /\ tcount' = [tcount EXCEPT ![t] = tcount[t] + 1]
  /\ wpc' = [wpc EXCEPT ![t] = "st_while"]
  /\ UNCHANGED <<mainVars, work, counter, counter_lock, stdout_lock>>
  /\ UNCHANGED <<done, count_copy, sum, rowlog>>
  /\ UNCHANGED acquired

st_end_lock(t) ==
  /\ wpc[t] = "st_end" /\ stdout_lock = Free
  /\ stdout_lock' = t
  /\ wpc' = [wpc EXCEPT ![t] = "st_ending"]
  /\ UNCHANGED <<mainVars, work, counter, counter_lock, localVars, resultVars>>
  /\ UNCHANGED acquired

\* the function returns without stdout_lock.unlock()
st_end_unlock_leak(t) ==
  /\ wpc[t] = "st_ending"
  /\ row' = [row EXCEPT ![t] = NoRow]
  /\ wpc' = [wpc EXCEPT ![t] = "Done"]
  /\ UNCHANGED <<mainVars, work, counter, counter_lock, stdout_lock, done, count_copy, resultVars>>
  /\ UNCHANGED acquired

\* stdout_lock.unlock(); the function returns and its locals die
st_end_unlock(t) ==
  /\ wpc[t] = "st_ending"
  /\ stdout_lock' = Free
  /\ row' = [row EXCEPT ![t] = NoRow]
  /\ wpc' = [wpc EXCEPT ![t] = "Done"]
  /\ UNCHANGED <<mainVars, work, counter, counter_lock, done, count_copy, resultVars>>
  /\ UNCHANGED acquired

(* ---- sum_dynamic(tid) ---- *)

dy_start_lock(t) ==
  /\ wpc[t] = "dy_start" /\ stdout_lock = Free
  /\ stdout_lock' = t
  /\ wpc' = [wpc EXCEPT ![t] = "dy_started"]
  /\ UNCHANGED <<mainVars, work, counter, counter_lock, localVars, resultVars>>
  /\ UNCHANGED acquired

\* stdout_lock.unlock(); bool done = false; while (!done)
dy_start_unlock(t) ==
  /\ wpc[t] = "dy_started"
  /\ stdout_lock' = Free
  /\ done' = [done EXCEPT ![t] = FALSE]
  /\ wpc' = [wpc EXCEPT ![t] = "dy_lock"]
  /\ UNCHANGED <<mainVars, work, counter, counter_lock, row, count_copy, resultVars>>
  /\ UNCHANGED acquired

\* a lock() that lets a second thread in
CounterLockIgnored == TRUE

\* counter_lock.lock() returns only to a thread that finds the mutex free
CounterLockAvailable == counter_lock = Free

dy_lock(t) ==
  /\ wpc[t] = "dy_lock" /\ CounterLockAvailable
  /\ counter_lock' = t
  /\ wpc' = [wpc EXCEPT ![t] = "dy_test"]
  /\ UNCHANGED <<mainVars, work, counter, stdout_lock, localVars, resultVars>>
  /\ acquired' = [acquired EXCEPT ![t] = acquired[t] + 1]

\* a decrement by two
DecrementTwice(c) == c - 2

\* --counter
Decrement(c) == c - 1

\* "if (--counter >= 0) ; else done = true": the decrement before the test
dy_test_predecrement(t) ==
  /\ wpc[t] = "dy_test"
  /\ counter' = Decrement(counter)
  /\ done' = IF counter' >= 0 THEN done ELSE [done EXCEPT ![t] = TRUE]
  /\ wpc' = [wpc EXCEPT ![t] = "dy_copy"]
  /\ UNCHANGED <<mainVars, work, counter_lock, stdout_lock, row, count_copy, resultVars>>
  /\ UNCHANGED acquired

\* "if (counter >= 0)": one claim too many
dy_test_offbyone(t) ==
  /\ wpc[t] = "dy_test"
  /\ IF counter >= 0
       THEN counter' = Decrement(counter) /\ done' = done
       ELSE counter' = counter /\ done' = [done EXCEPT ![t] = TRUE]
  /\ wpc' = [wpc EXCEPT ![t] = "dy_copy"]
  /\ UNCHANGED <<mainVars, work, counter_lock, stdout_lock, row, count_copy, resultVars>>
  /\ UNCHANGED acquired

\* if (counter > 0) --counter; else done = true
dy_test(t) ==
  /\ wpc[t] = "dy_test"
  /\ IF counter > 0
       THEN counter' = Decrement(counter) /\ done' = done
       ELSE counter' = counter /\ done' = [done EXCEPT ![t] = TRUE]
  /\ wpc' = [wpc EXCEPT ![t] = "dy_copy"]
  /\ UNCHANGED <<mainVars, work, counter_lock, stdout_lock, row, count_copy, resultVars>>
  /\ UNCHANGED acquired

\* the value the counter had before "--counter"
CopiedCounterBefore(c) == c + 1

\* the value "count_copy = counter" stores
CopiedCounter(c) == c

dy_copy(t) ==
  /\ wpc[t] = "dy_copy"
  /\ count_copy' = [count_copy EXCEPT ![t] = CopiedCounter(counter)]
  /\ wpc' = [wpc EXCEPT ![t] = "dy_unlock"]
  /\ UNCHANGED <<mainVars, work, counter, counter_lock, stdout_lock, done, row, resultVars>>
  /\ UNCHANGED acquired

\* the unlock() moved into the "if (!done)" branch
dy_unlock_leak(t) ==
  /\ wpc[t] = "dy_unlock"
  /\ IF done[t]
       THEN /\ counter_lock' = counter_lock
            /\ count_copy' = [count_copy EXCEPT ![t] = NoRow]
            /\ wpc' = [wpc EXCEPT ![t] = "dy_end"]
       ELSE /\ counter_lock' = Free
            /\ count_copy' = count_copy
            /\ wpc' = [wpc EXCEPT ![t] = "dy_inc"]
  /\ UNCHANGED <<mainVars, work, counter, stdout_lock, done, row, resultVars>>
  /\ UNCHANGED acquired

\* counter_lock.unlock(); if (!done) ... else the while loop ends
dy_unlock(t) ==
  /\ wpc[t] = "dy_unlock"
  /\ counter_lock' = Free
  /\ IF done[t]
       THEN /\ count_copy' = [count_copy EXCEPT ![t] = NoRow]
            /\ wpc' = [wpc EXCEPT ![t] = "dy_end"]
       ELSE /\ count_copy' = count_copy
            /\ wpc' = [wpc EXCEPT ![t] = "dy_inc"]
  /\ UNCHANGED <<mainVars, work, counter, stdout_lock, done, row, resultVars>>
  /\ UNCHANGED acquired

\* ++tcount[(tid + 1) % N]: the neighbour's entry
dy_inc_neighbour(t) ==
  /\ wpc[t] = "dy_inc"
  /\ tcount' = [tcount EXCEPT ![(t + 1) % limiter] = tcount[(t + 1) % limiter] + 1]
  /\ wpc' = [wpc EXCEPT ![t] = "dy_sum"]
  /\ UNCHANGED <<mainVars, work, counter, counter_lock, stdout_lock>>
  /\ UNCHANGED <<localVars, sum, rowlog>>
  /\ UNCHANGED acquired

\* tcount[tid] = 1 instead of ++tcount[tid]
dy_inc_assign(t) ==
  /\ wpc[t] = "dy_inc"
  /\ tcount' = [tcount EXCEPT ![t] = 1]
  /\ wpc' = [wpc EXCEPT ![t] = "dy_sum"]
  /\ UNCHANGED <<mainVars, work, counter, counter_lock, stdout_lock>>
  /\ UNCHANGED <<localVars, sum, rowlog>>
  /\ UNCHANGED acquired

\* ++tcount[tid]
dy_inc(t) ==
  /\ wpc[t] = "dy_inc"
  /\ tcount' = [tcount EXCEPT ![t] = tcount[t] + 1]
  /\ wpc' = [wpc EXCEPT ![t] = "dy_sum"]
  /\ UNCHANGED <<mainVars, work, counter, counter_lock, stdout_lock>>
  /\ UNCHANGED <<localVars, sum, rowlog>>
  /\ UNCHANGED acquired

\* work[counter][i]: the shared counter read again outside the lock
DynamicRowShared(t) == counter

\* the row index used in work[count_copy][i]
DynamicRow(t) == count_copy[t]

\* for (i ...) sum[tid] += work[count_copy][i]; count_copy leaves its scope
dy_sum(t) ==
  /\ wpc[t] = "dy_sum"
  /\ sum' = [sum EXCEPT ![t] = Add(sum[t], RowSum(DynamicRow(t)))]
  /\ rowlog' = [rowlog EXCEPT ![t] = Append(rowlog[t], DynamicRow(t))]
  /\ count_copy' = [count_copy EXCEPT ![t] = NoRow]
  /\ wpc' = [wpc EXCEPT ![t] = "dy_lock"]
  /\ UNCHANGED <<mainVars, work, counter, counter_lock, stdout_lock>>
  /\ UNCHANGED <<done, row, tcount>>
  /\ UNCHANGED acquired

dy_end_lock(t) ==
  /\ wpc[t] = "dy_end" /\ stdout_lock = Free
  /\ stdout_lock' = t
  /\ wpc' = [wpc EXCEPT ![t] = "dy_ending"]
  /\ UNCHANGED <<mainVars, work, counter, counter_lock, localVars, resultVars>>
  /\ UNCHANGED acquired

dy_end_unlock(t) ==
  /\ wpc[t] = "dy_ending"
  /\ stdout_lock' = Free
  /\ wpc' = [wpc EXCEPT ![t] = "Done"]
  /\ UNCHANGED <<mainVars, work, counter, counter_lock, localVars, resultVars>>
  /\ UNCHANGED acquired

(* ---- main(): join and accumulate ---- *)

\* a join() that does not wait
JoinNoWait(t) == TRUE

\* threads.at(i)->join() returns once thread i has terminated
Joinable(t) == wpc[t] = "Done"

main_join ==
  /\ mpc = "join" /\ mi < limiter
  /\ Joinable(mi)
  /\ mpc' = "accumulate"
  /\ UNCHANGED <<optVars, mi, total_work, gross_sum>>
  /\ UNCHANGED <<work, counter, counter_lock, stdout_lock, wpc, localVars, resultVars>>
  /\ UNCHANGED acquired

\* total_work += tcount.at(i); gross_sum += sum.at(i); ++i
main_accumulate ==
  /\ mpc = "accumulate"
  /\ total_work' = total_work + tcount[mi]
  /\ gross_sum' = Add(gross_sum, sum[mi])
  /\ mi' = mi + 1
  /\ mpc' = "join"
  /\ UNCHANGED <<optVars>>
  /\ UNCHANGED <<work, counter, counter_lock, stdout_lock, wpc, localVars, resultVars>>
  /\ UNCHANGED acquired

\* the loop ends, the summary line is printed, return 0
main_exit ==
  /\ mpc = "join" /\ mi >= limiter
  /\ mpc' = "exit0"
  /\ UNCHANGED <<optVars, mi, total_work, gross_sum>>
  /\ UNCHANGED <<work, counter, counter_lock, stdout_lock, wpc, localVars, resultVars>>
  /\ UNCHANGED acquired

Main ==
  \/ main_opt_d \/ main_opt_t \/ main_usage \/ main_resize \/ main_populate
  \/ main_spawn_dynamic \/ main_spawn_static \/ main_spawn_end
  \/ main_join \/ main_accumulate \/ main_exit

Worker(t) ==
  \/ st_start_lock(t) \/ st_start_unlock(t) \/ st_while(t) \/ st_sum(t)
  \/ st_next(t) \/ st_end_lock(t) \/ st_end_unlock(t)
  \/ dy_start_lock(t) \/ dy_start_unlock(t) \/ dy_lock(t) \/ dy_test(t)
  \/ dy_copy(t) \/ dy_unlock(t) \/ dy_inc(t) \/ dy_sum(t)
  \/ dy_end_lock(t) \/ dy_end_unlock(t)

Next ==
  \/ main_opt_d \/ main_opt_t \/ main_usage \/ main_resize \/ main_populate
  \/ main_spawn_dynamic \/ main_spawn_static \/ main_spawn_end
  \/ main_join \/ main_accumulate \/ main_exit
  \/ \E t \in Threads : st_start_lock(t)
  \/ \E t \in Threads : st_start_unlock(t)
  \/ \E t \in Threads : st_while(t)
  \/ \E t \in Threads : st_sum(t)
  \/ \E t \in Threads : st_next(t)
  \/ \E t \in Threads : st_end_lock(t)
  \/ \E t \in Threads : st_end_unlock(t)
  \/ \E t \in Threads : dy_start_lock(t)
  \/ \E t \in Threads : dy_start_unlock(t)
  \/ \E t \in Threads : dy_lock(t)
  \/ \E t \in Threads : dy_test(t)
  \/ \E t \in Threads : dy_copy(t)
  \/ \E t \in Threads : dy_unlock(t)
  \/ \E t \in Threads : dy_inc(t)
  \/ \E t \in Threads : dy_sum(t)
  \/ \E t \in Threads : dy_end_lock(t)
  \/ \E t \in Threads : dy_end_unlock(t)

Spec == Init /\ [][Next]_vars

\* every thread the operating system runs keeps being scheduled
FairSpec == Spec /\ WF_vars(Main) /\ \A t \in Threads : WF_vars(Worker(t))

TypeOK ==
  /\ limiter \in 0 .. MaxN
  /\ counter \in 0 .. rows
  /\ counter_lock \in Threads \cup {Free}
  /\ stdout_lock \in Threads \cup {Free}
  /\ DOMAIN tcount = DOMAIN sum

(* ---- definitions used to state the properties ---- *)

Workers == 0 .. (limiter - 1)
InRows == 0 .. (rows - 1)
Cells == InRows \X (0 .. (cols - 1))

RECURSIVE CellTotal(_)
\* the total of the matrix, cell by cell and independent of any row order
CellTotal(S) ==
  IF S = {} THEN Zero
  ELSE LET c == CHOOSE x \in S : TRUE
       IN  Add(work[c[1]][c[2]], CellTotal(S \ {c}))

MatrixTotal == CellTotal(Cells)

AllWorkersDone ==
  /\ mpc \in {"join", "accumulate", "exit0"}
  /\ \A t \in Workers : wpc[t] = "Done"

\* how many times row r has been summed, by whichever worker
Hits(r) ==
  Cardinality({e \in Threads \X (1 .. rows + 1) :
                 e[2] \in DOMAIN rowlog[e[1]] /\ rowlog[e[1]][e[2]] = r})

LoggedRows == UNION {{rowlog[t][k] : k \in DOMAIN rowlog[t]} : t \in Threads}

\* the rows tid, tid+N, tid+2N, ... below rows, in increasing order
StridedRows(tid, n) ==
  LET S == {r \in InRows : r >= tid /\ (r - tid) % n = 0}
  IN  [k \in 1 .. Cardinality(S) |-> tid + (k - 1) * n]

RECURSIVE SeqRowTotal(_)
SeqRowTotal(q) ==
  IF q = <<>> THEN Zero
  ELSE Add(CellTotal(({Head(q)} \cap InRows) \X (0 .. (cols - 1))), SeqRowTotal(Tail(q)))

IsPrefix(p, q) == Len(p) <= Len(q) /\ \A k \in 1 .. Len(p) : p[k] = q[k]

StaticFinished == {"st_end", "st_ending", "Done"}
StaticRunning == {"st_while", "st_sum", "st_next"}
CriticalSection == {"dy_test", "dy_copy", "dy_unlock"}
Processing == {"st_sum", "st_next", "dy_inc", "dy_sum"}

(* C1: coverage.  With at least one worker, once every worker has finished *)
(* every row index of the matrix has been summed exactly once, and nothing *)
(* outside the matrix has been summed, in both strategies.                 *)
C1_Coverage ==
  (limiter >= 1 /\ AllWorkersDone) =>
     /\ \A r \in InRows : Hits(r) = 1
     /\ LoggedRows = InRows

C1_Witness ==
  /\ AllWorkersDone /\ dFlag /\ limiter = 2
  /\ rowlog[0] # <<>> /\ rowlog[1] # <<>>

(* C2: sum correctness.  When main has finished the join/accumulate loop,  *)
(* gross_sum is the total of all matrix elements.                          *)
C2_SumCorrect == mpc = "exit0" => gross_sum = MatrixTotal

(* C3: row-count conservation.  When main reaches its summary line,        *)
(* total_work equals rows, whatever thread count option parsing produced.  *)
C3_RowConservation == mpc = "exit0" => total_work = rows

(* C4 as stated: after a successful claim the recorded row index is the    *)
(* value the counter had before the decrement.                             *)
C4_PreDecrement ==
  \A t \in Threads :
    (wpc[t] = "dy_unlock" /\ ~done[t]) => count_copy[t] = counter + 1

(* C4 amended: a successful claim decrements the counter by one and        *)
(* records the value the counter has after the decrement; that recorded    *)
(* value stays unchanged until it is used as the row the worker sums.      *)
C4_PostDecrement ==
  /\ [][\A t \in Threads :
          (wpc[t] = "dy_test" /\ wpc'[t] = "dy_copy" /\ counter > 0)
             => (counter' = counter - 1 /\ ~done'[t])]_vars
  /\ [](\A t \in Threads :
          (wpc[t] = "dy_unlock" /\ ~done[t])
             => (count_copy[t] = counter /\ count_copy[t] \in InRows))
  /\ [][\A t \in Threads :
          /\ (wpc[t] \in {"dy_unlock", "dy_inc"} /\ wpc'[t] \in {"dy_inc", "dy_sum"})
                => count_copy'[t] = count_copy[t]
          /\ (wpc[t] = "dy_sum" /\ wpc'[t] # "dy_sum")
                => /\ rowlog'[t] = Append(rowlog[t], count_copy[t])
                   /\ sum'[t] = Add(sum[t], SeqRowTotal(<<count_copy[t]>>))]_vars

C4_Witness ==
  \E t \in Threads :
    /\ wpc[t] = "dy_sum" /\ count_copy[t] = rows - 1
    /\ counter = 0

(* C5: static partition.  Worker tid of a static run sums the rows tid,    *)
(* tid+N, tid+2N, ... below rows, in that order and nothing else; when its *)
(* loop has ended tcount[tid] is their number and sum[tid] their total.    *)
C5_StaticPartition ==
  \A t \in Threads :
    (~dFlag /\ wpc[t] \in StaticRunning \cup StaticFinished) =>
       LET full == StridedRows(t, limiter)
       IN  /\ IsPrefix(rowlog[t], full)
           /\ sum[t] = SeqRowTotal(rowlog[t])
           /\ wpc[t] \in StaticFinished =>
                 /\ rowlog[t] = full
                 /\ tcount[t] = Len(full)

C5_Witness ==
  /\ ~dFlag /\ limiter = 1 /\ wpc[0] = "Done"
  /\ rowlog[0] = <<0, 1>> /\ sum[0] = MatrixTotal

(* C6: mutual exclusion of claims.  At most one worker is between          *)
(* counter_lock.lock() and counter_lock.unlock(), it is the holder of the  *)
(* lock, and while it is there no step of another thread changes counter   *)
(* or enters the critical section.                                         *)
C6_MutualExclusion ==
  /\ [](\A t \in Threads :
          wpc[t] \in CriticalSection =>
             /\ counter_lock = t
             /\ \A u \in Threads \ {t} : wpc[u] \notin CriticalSection)
  /\ [][\A t \in Threads :
          (wpc[t] \in CriticalSection /\ wpc'[t] = wpc[t]) => counter' = counter]_vars

C6_Witness ==
  \E t, u \in Threads :
    /\ wpc[t] = "dy_copy" /\ ~done[t]
    /\ wpc[u] = "dy_sum"

(* C7 as stated: no accumulation step of main happens while some worker    *)
(* has not yet terminated.                                                 *)
C7_BarrierAll ==
  mpc = "accumulate" => \A t \in Workers : wpc[t] = "Done"

(* C7 amended: main accumulates tcount[i] and sum[i] only after worker i   *)
(* and every worker with a smaller index has terminated and been joined;   *)
(* workers with a larger index may still be running.                       *)
C7_BarrierPerWorker ==
  mpc = "accumulate" => (mi \in Workers /\ \A t \in 0 .. mi : wpc[t] = "Done")

C7_Witness ==
  /\ mpc = "accumulate" /\ mi = 0
  /\ \E t \in Workers : wpc[t] \in Processing

(* C8: WorkerState ownership.  Once the vectors exist, a step changes      *)
(* tcount[tid] or sum[tid] only if it is a step of worker tid, and main    *)
(* adds entry i to its totals only in a state where worker i has           *)
(* terminated, in a step in which no worker moves.                         *)
C8_Ownership ==
  /\ [][\A t \in DOMAIN tcount \cap DOMAIN tcount' :
          (tcount'[t] # tcount[t] \/ sum'[t] # sum[t]) =>
             /\ wpc[t] \in Processing /\ wpc'[t] # wpc[t]
             /\ \A u \in Threads \ {t} : wpc'[u] = wpc[u]
             /\ mpc' = mpc /\ mi' = mi]_vars
  /\ [][(total_work' # total_work \/ gross_sum' # gross_sum \/ (mpc = "accumulate" /\ mpc' = "join")) =>
          /\ wpc[mi] = "Done" /\ wpc' = wpc
          /\ tcount' = tcount /\ sum' = sum]_vars

C8_Witness ==
  /\ dFlag /\ mpc = "exit0" /\ limiter = 2
  /\ tcount[0] = 1 /\ tcount[1] = 1 /\ sum[1] # Zero

(* C9: termination.  Under fair scheduling every run ends: either usage()  *)
(* exits before any thread exists, or every worker reaches Done (so none   *)
(* is left waiting for counter_lock), every join returns and main returns  *)
(* after its summary.                                                      *)
C9_Termination ==
  <>(\/ mpc = "exit1" /\ \A t \in Threads : wpc[t] = "unborn"
     \/ mpc = "exit0" /\ \A t \in Workers : wpc[t] = "Done")

C9_Witness ==
  /\ mpc = "exit0" /\ dFlag /\ limiter = rows
  /\ \A t \in Workers : wpc[t] = "Done"

RECURSIVE StaticWorkerRun(_, _, _)
\* the <<tcount, sum>> a static worker ends with, started at row r
StaticWorkerRun(r, n, acc) ==
  IF r >= rows THEN acc
  ELSE StaticWorkerRun(r + n, n, <<acc[1] + 1, Add(acc[2], SeqRowTotal(<<r>>))>>)

RECURSIVE StaticRun(_, _)
\* the <<total_work, gross_sum>> of a complete static run with n workers
StaticRun(t, n) ==
  IF t >= n THEN <<0, Zero>>
  ELSE LET w == StaticWorkerRun(t, n, <<0, Zero>>)
           o == StaticRun(t + 1, n)
       IN  <<w[1] + o[1], Add(w[2], o[2])>>

(* C10: strategy equivalence.  A complete run, static or dynamic, ends     *)
(* with the total_work and gross_sum that the static assignment yields for *)
(* the same matrix and thread count, whatever the interleaving.            *)
C10_StrategyEquivalence ==
  mpc = "exit0" => <<total_work, gross_sum>> = StaticRun(0, limiter)

C10_Witness ==
  /\ mpc = "exit0" /\ dFlag /\ limiter = 2
  /\ rowlog[1] = <<1, 0>> /\ rowlog[0] = <<>>
  /\ sum[0] = Zero /\ gross_sum = MatrixTotal

(* C11: scheduling determinism.  The gross_sum a complete run ends with is *)
(* fixed by the matrix and the thread count alone (every cell once when a  *)
(* worker exists), and in a static run so are tcount[tid] and sum[tid] of  *)
(* every worker; interleaving changes neither.                             *)
C11_Determinism ==
  mpc = "exit0" =>
     /\ gross_sum = IF limiter = 0 THEN Zero ELSE MatrixTotal
     /\ ~dFlag => \A t \in Workers :
           <<tcount[t], sum[t]>> = StaticWorkerRun(t, limiter, <<0, Zero>>)

\* a dynamic run whose per-worker distribution is not the static one
C11_Witness ==
  /\ mpc = "exit0" /\ dFlag /\ limiter = 2
  /\ rowlog[0] = <<1, 0>> /\ tcount[1] = 0
  /\ gross_sum = MatrixTotal

\* getopt has returned 't'
OptionT == mpc = "getopt" /\ argv # <<>> /\ Head(argv).opt = "t"
\* getopt has returned something that is neither 'd' nor 't'
OptionBad == mpc = "getopt" /\ argv # <<>> /\ Head(argv).opt \notin {"d", "t"}

(* C12: thread-count clamping.  The thread count starts as 2, only a -t    *)
(* option changes it, and whatever value -t carries and whatever the       *)
(* hardware-concurrency query returned, the count -t leaves is in          *)
(* [2, hardwareConcurrency].                                               *)
C12_Clamp ==
  /\ limiter = 2
  /\ [][IF OptionT THEN limiter' \in 2 .. maxThreads
                   ELSE limiter' = limiter]_vars

(* C13 as stated: a -t value outside [2, hardwareConcurrency] ends the     *)
(* run like an unrecognized option, with usage() and exit code 1.          *)
C13_OutOfRangeIsError ==
  [][(OptionT /\ Head(argv).arg \notin 2 .. maxThreads) => mpc' = "exit1"]_vars

(* C13 amended: only an unrecognized option is a configuration error: it   *)
(* ends the run with exit code 1 before any worker is started, and exit    *)
(* code 0 is returned only when every option was accepted.  A -t value out *)
(* of range is no error: 0 and 1 become 2, values above                    *)
(* hardwareConcurrency and negative values become hardwareConcurrency,     *)
(* and the run goes on.                                                    *)
C13_UsageOnlyForBadOption ==
  /\ [][/\ OptionBad => mpc' = "exit1"
        /\ OptionT =>
             LET a == Head(argv).arg
             IN  /\ mpc' = "getopt"
                 /\ a \in 2 .. maxThreads => limiter' = a
                 /\ a \in {0, 1} => limiter' = 2
                 /\ (a < 0 \/ (a >= 2 /\ a > maxThreads)) => limiter' = maxThreads
        /\ mpc = "exit1" => mpc' = "exit1"]_vars
  /\ [](mpc = "exit1" => \A t \in Threads : wpc[t] = "unborn")
  /\ [](mpc = "exit0" => argv = <<>>)

\* -t 3 on a machine with one hardware thread was accepted as 1, then an
\* unrecognized option ended the run
C13_Witness ==
  /\ mpc = "exit1" /\ maxThreads = 1 /\ limiter = 1

RECURSIVE SumOver(_, _)
\* f[0] + ... + f[n-1]
SumOver(f, n) == IF n = 0 THEN 0 ELSE f[n - 1] + SumOver(f, n - 1)

\* the rows counted so far by all workers
CountedRows == SumOver(tcount, Cardinality(DOMAIN tcount))

(* C14: SharedCursor invariant.  In a dynamic run the counter starts at    *)
(* rows, stays in [0, rows], changes only by a decrement of exactly 1 made *)
(* by the lock holder in a successful claim, and is 0 once all workers are *)
(* Done.                                                                   *)
C14_Cursor ==
  /\ counter = rows
  /\ [](counter \in 0 .. rows)
  /\ [][counter' # counter =>
          /\ counter' = counter - 1
          /\ \E t \in Threads :
               /\ wpc[t] = "dy_test" /\ wpc'[t] = "dy_copy"
               /\ counter_lock = t /\ ~done'[t]]_vars
  /\ []((dFlag /\ AllWorkersDone) => counter = 0)

StaticPcs ==
  {"st_start", "st_started", "st_while", "st_sum", "st_next", "st_end", "st_ending"}

(* C15: static strategy frame.  A step of a sum_static worker leaves       *)
(* counter, counter_lock, the matrix, main's totals and every other        *)
(* worker's tcount and sum entry unchanged; in a static run counter stays  *)
(* rows and counter_lock is never taken; the matrix changes only when main *)
(* populates it.                                                           *)
C15_StaticFrame ==
  /\ [][\A t \in Threads :
          (wpc[t] \in StaticPcs /\ wpc'[t] # wpc[t]) =>
             /\ counter' = counter /\ counter_lock' = counter_lock
             /\ acquired' = acquired
             /\ work' = work
             /\ total_work' = total_work /\ gross_sum' = gross_sum
             /\ \A u \in DOMAIN tcount \ {t} :
                  tcount'[u] = tcount[u] /\ sum'[u] = sum[u]]_vars
  /\ [](~dFlag => (counter = rows /\ counter_lock = Free
                     /\ \A t \in Threads : acquired[t] = 0))
  /\ [][mpc # "populate" => work' = work]_vars

C15_Witness ==
  /\ ~dFlag /\ limiter = 2 /\ counter = rows
  /\ wpc[0] = "st_next" /\ tcount[1] = 1 /\ sum[1] # Zero

\* the worker states of the design: Running, Processing, Done
Phase(p) ==
  IF p = "unborn" THEN "Unborn"
  ELSE IF p \in Processing THEN "Processing"
  ELSE IF p \in {"st_end", "st_ending", "dy_end", "dy_ending", "Done"} THEN "Done"
  ELSE "Running"

PhaseSteps ==
  {<<"Unborn", "Running">>, <<"Running", "Processing">>,
   <<"Processing", "Running">>, <<"Running", "Done">>}

(* C16: failed claim and terminal state.  A sum_dynamic worker that finds  *)
(* counter = 0 under the lock sets done, leaves counter, tcount and sum    *)
(* unchanged, releases the lock and is Done.  A worker moves only          *)
(* Running -> Processing -> Running or Running -> Done, and once Done it   *)
(* stays Done, never takes counter_lock and changes none of counter, its   *)
(* tcount and its sum.                                                     *)
C16_FailedClaimAndDone ==
  [][\A t \in Threads :
       /\ Phase(wpc'[t]) # Phase(wpc[t]) =>
             <<Phase(wpc[t]), Phase(wpc'[t])>> \in PhaseSteps
       /\ (wpc[t] = "dy_test" /\ wpc'[t] = "dy_copy" /\ counter = 0) =>
             /\ done'[t]
             /\ counter' = counter /\ tcount' = tcount /\ sum' = sum
       /\ (wpc[t] \in {"dy_copy", "dy_unlock"} /\ done[t] /\ wpc'[t] # wpc[t]) =>
             /\ counter = 0
             /\ counter' = counter /\ tcount' = tcount /\ sum' = sum
             /\ wpc[t] = "dy_unlock" =>
                   (counter_lock' = Free /\ Phase(wpc'[t]) = "Done")
       /\ Phase(wpc[t]) = "Done" =>
             /\ Phase(wpc'[t]) = "Done"
             /\ counter_lock' # t /\ acquired'[t] = acquired[t]
             /\ tcount'[t] = tcount[t] /\ sum'[t] = sum[t]
             /\ wpc'[t] # wpc[t] => counter' = counter]_vars

C16_Witness ==
  \E t, u \in Threads :
    /\ wpc[t] = "dy_unlock" /\ done[t] /\ tcount[t] = 1
    /\ wpc[u] = "Done" /\ tcount[u] = 1

\* successful claims so far: rows counted, plus claims whose ++tcount is
\* still to come (the counter already decremented)
SuccessfulClaims ==
  CountedRows
    + Cardinality({t \in Threads :
                     \/ wpc[t] \in {"dy_copy", "dy_unlock"} /\ ~done[t]
                     \/ wpc[t] = "dy_inc"})

(* C17: claim order and index bounds.  The k-th successful claim records   *)
(* row index rows - k, so rows are claimed from rows-1 down to 0, and      *)
(* every count_copy used to read the matrix, and every row read, is in     *)
(* [0, rows-1].                                                            *)
C17_ClaimOrder ==
  /\ \A t \in Threads :
       /\ (wpc[t] = "dy_unlock" /\ ~done[t]) =>
             count_copy[t] = rows - SuccessfulClaims
       /\ wpc[t] \in {"dy_inc", "dy_sum"} => count_copy[t] \in InRows
  /\ dFlag => LoggedRows \subseteq InRows

C17_Witness ==
  /\ wpc[0] = "dy_sum" /\ count_copy[0] = rows - 1
  /\ wpc[1] = "dy_unlock" /\ ~done[1] /\ count_copy[1] = rows - 2

(* C18 as stated: counter + the sum of tcount + the number of workers that *)
(* have left the critical section of a successful claim without having     *)
(* executed ++tcount yet is rows, in every state of a dynamic run.         *)
C18_ConservationAfterUnlock ==
  dFlag =>
    counter + CountedRows + Cardinality({t \in Threads : wpc[t] = "dy_inc"}) = rows

(* C18 amended: counter + the sum of tcount + the number of workers that   *)
(* have executed --counter in a successful claim (still inside the         *)
(* critical section or already out of it) without having executed          *)
(* ++tcount yet is rows, in every state of a dynamic run.                  *)
C18_Conservation ==
  dFlag => counter + SuccessfulClaims = rows

C18_Witness ==
  /\ dFlag
  /\ wpc[0] = "dy_copy" /\ ~done[0]
  /\ wpc[1] = "dy_inc"

(* C19: lock discipline and deadlock freedom.  No thread holds stdout_lock *)
(* and counter_lock together; a worker holds stdout_lock only between the  *)
(* lock() and unlock() around a print and counter_lock only inside the     *)
(* claim's critical section, so never while it takes another lock nor when *)
(* it has terminated; and every state in which main has not exited has a   *)
(* thread that can take a step.                                            *)
C19_LockDiscipline ==
  /\ \A t \in Threads :
       /\ ~(stdout_lock = t /\ counter_lock = t)
       /\ stdout_lock = t <=>
             wpc[t] \in {"st_started", "st_ending", "dy_started", "dy_ending"}
       /\ counter_lock = t <=> wpc[t] \in CriticalSection
  /\ stdout_lock \in Threads \cup {Free}
  /\ counter_lock \in Threads \cup {Free}
  /\ mpc \notin {"exit0", "exit1"} => ENABLED Next

C19_Witness ==
  /\ stdout_lock = 0 /\ wpc[0] = "dy_ending"
  /\ counter_lock = 1 /\ wpc[1] = "dy_copy"

(* C20: critical-section count.  At the end of a dynamic run every worker  *)
(* has acquired counter_lock exactly tcount[tid] + 1 times, so all workers *)
(* together rows + N times, and exactly rows claims succeeded.             *)
C20_Acquisitions ==
  (dFlag /\ mpc = "exit0") =>
     /\ \A t \in Workers : acquired[t] = tcount[t] + 1
     /\ SumOver(acquired, MaxN) = rows + limiter
     /\ CountedRows = rows
====
